---- MODULE Spec2Model ----
(***************************************************************************)
(* A model of the retrieval-augmented question answering backend:          *)
(*   backend/core/processing.py  DocumentProcessor                         *)
(*   backend/main.py             doc_processor, run_submission             *)
(*   backend/core/schemas.py     QueryRequest, QueryResponse               *)
(*                                                                         *)
(* One DocumentProcessor object exists (main.py:38).  Its only mutable     *)
(* attribute is vector_store, which does not exist until the first         *)
(* successful create_vector_store.  Calls are made either by the HTTP      *)
(* handler run_submission (specification Spec) or directly on the object   *)
(* (specification SpecProc).  The external collaborators (network, pypdf,  *)
(* the embedding model, FAISS, the language model) are inputs chosen with  *)
(* \E at the step that calls them.                                         *)
(***************************************************************************)
EXTENDS Naturals, Sequences, FiniteSets, TLC

VARIABLES
    req,           \* req[r]: the call r makes: entry point, documents, questions
    pc,            \* pc[r]: where call r is
    running,       \* the call that occupies the event loop / the caller, 0 if none
    vector_store,  \* doc_processor.vector_store, NoStore while the attribute is absent
    lastBuild,     \* history: how the latest create_vector_store ended
    local,         \* local[r]: the call's local variables
    result,        \* result[r]: what the call returned or raised
    gen,           \* gen[r]: history of retrieval_chain.invoke calls made for r
    calls,         \* calls[r]: history of the backends r has called
    ext            \* ext[r]: history of what the extractor met for r

vars == <<req, pc, running, vector_store, lastBuild, local, result, gen, calls, ext>>

----------------------------------------------------------------------------
(* Bounds of the model *)

NumReqs == 3
MaxQuestions == 3
MaxTextHalves == 3

(* Program constants *)

ChunkSize == 1000
ChunkOverlap == 100
HTTP_200_OK == 200
HTTP_400_BAD_REQUEST == 400
HTTP_500_INTERNAL_SERVER_ERROR == 500

----------------------------------------------------------------------------
(* Input domains *)

Reqs == 1..NumReqs
Urls == {"urlA", "urlB"}
Questions == {"q1", "q2"}

RECURSIVE SeqsUpTo(_, _)
SeqsUpTo(S, n) ==
    IF n = 0 THEN {<<>>}
    ELSE LET shorter == SeqsUpTo(S, n - 1)
         IN shorter \cup {Append(s, x) : s \in {t \in shorter : Len(t) = n - 1}, x \in S}

QuestionLists == SeqsUpTo(Questions, MaxQuestions)

\* lengths of extracted text, in characters: empty, below, at and above one chunk
TextLens == {0} \cup {(k * ChunkSize) \div 2 : k \in 1..MaxTextHalves}

Sentinel == "Information not found in the document."
Raised == "<raised>"
\* what the language model can put in response["answer"]
LlmTexts == {"grounded answer", Sentinel, ""}

MsgDownload == "Failed to download document"
MsgParse == "Failed to parse PDF"
MsgNotCreated == "Vector store not created. Call create_vector_store first."
MsgIndex == "list index out of range"
MsgEmbed == "embedding model failed"
MsgLlm == "retrieval chain failed"
MsgUnexpected == "An unexpected error occurred: "

NoStore == [doc |-> "none", builder |-> 0]
NoReq == [entry |-> "none", documents |-> "none", questions |-> <<>>]
NoLocal == [raw_text |-> 0, retriever |-> NoStore, answers |-> <<>>]
NoResult == [kind |-> "none", cls |-> "none", status |-> 0, detail |-> <<>>, answers |-> <<>>]

----------------------------------------------------------------------------
(* schemas.py *)

QueryRequest(documents, questions) ==
    [entry |-> "run_submission", documents |-> documents, questions |-> questions]

QueryResponse(answers) ==
    [kind |-> "return", cls |-> "QueryResponse", status |-> HTTP_200_OK,
     detail |-> <<>>, answers |-> answers]

----------------------------------------------------------------------------
(* processing.py: _load_and_extract_text *)

\* the exception the try block raises, if any, for what the network and pypdf do
ExtractRaises(fetch, pdf) ==
    IF fetch = "conn_error" THEN "ConnectionError"
    ELSE IF fetch = "http_error" THEN "HTTPError"
    ELSE IF pdf = "invalid" THEN "PdfReadError"
    ELSE "none"

\* history tag: what the extractor met
ExtractCase(fetch, pdf, len) ==
    IF fetch # "ok" THEN fetch
    ELSE IF pdf = "invalid" THEN "invalid_pdf"
    ELSE IF len = 0 THEN "empty_text"
    ELSE "text"

IsRequestException(cls) == cls \in {"ConnectionError", "HTTPError"}

\* variant: the except clauses in the other order
ExtractHandlerParseFirst(cls) == MsgParse

\* the except clauses, in order: requests.RequestException, then Exception
ExtractHandler(cls) ==
    IF IsRequestException(cls) THEN MsgDownload ELSE MsgParse

ValueError(msg) == [cls |-> "ValueError", msg |-> msg]
OtherError(cls, msg) == [cls |-> cls, msg |-> msg]

----------------------------------------------------------------------------
(* processing.py: create_vector_store *)

\* RecursiveCharacterTextSplitter(chunk_size, chunk_overlap).split_text:
\* no chunk for empty text, one chunk up to chunk_size, then one more chunk
\* for every further chunk_size - chunk_overlap characters
NumChunks(len) ==
    IF len = 0 THEN 0
    ELSE IF len <= ChunkSize THEN 1
    ELSE 1 + ((len - ChunkSize) + (ChunkSize - ChunkOverlap) - 1)
                 \div (ChunkSize - ChunkOverlap)

\* FAISS.from_texts: embeds the chunks, then sizes the index from the first
\* embedding, which raises IndexError when there is none
FromTextsRaises(chunks, embed) ==
    IF embed = "fail" THEN OtherError("RuntimeError", MsgEmbed)
    ELSE IF chunks = 0 THEN OtherError("IndexError", MsgIndex)
    ELSE OtherError("none", "")

\* the index FAISS.from_texts returns; the model keeps of it which document
\* it indexes and which call built it
FromTexts(doc, chunks, r) == [doc |-> doc, builder |-> r]

\* variant: the attribute is reset before the build
StoreAfterFailedBuildCleared(store) == NoStore

\* self.vector_store is assigned only after FAISS.from_texts has returned
StoreAfterFailedBuild(store) == store

----------------------------------------------------------------------------
(* processing.py: answer_questions *)

\* variant: the check made only when there is a question to answer
MustRaiseNotCreatedInLoop(store, questions) ==
    store = NoStore /\ questions # <<>>

\* if not hasattr(self, 'vector_store'): checked before anything else
MustRaiseNotCreated(store, questions) == store = NoStore

\* variant: answers.insert(0, ...)
AppendAnswerFront(answers, a) == <<a>> \o answers

\* answers.append(response["answer"])
AppendAnswer(answers, a) == Append(answers, a)

----------------------------------------------------------------------------
(* main.py: run_submission, and the event loop that runs it *)

\* variant: a plain def handler, run in the thread pool beside others
LoopFreeThreaded(r) == TRUE

\* run_submission is an async def that never awaits: once the event loop has
\* started a handler it runs it to its end before it starts another
LoopFree(r) == running = 0

\* except ValueError -> 400 with str(e); except Exception -> 500
HTTPException(exc) ==
    IF exc.cls = "ValueError"
    THEN [kind |-> "raise", cls |-> "HTTPException", status |-> HTTP_400_BAD_REQUEST,
          detail |-> <<exc.msg>>, answers |-> <<>>]
    ELSE [kind |-> "raise", cls |-> "HTTPException",
          status |-> HTTP_500_INTERNAL_SERVER_ERROR,
          detail |-> <<MsgUnexpected, exc.msg>>, answers |-> <<>>]

\* what the caller of entry point `entry` sees when exc leaves the processor
Raises(entry, exc) ==
    IF entry = "run_submission" THEN HTTPException(exc)
    ELSE [kind |-> "raise", cls |-> exc.cls, status |-> 0,
          detail |-> <<exc.msg>>, answers |-> <<>>]

\* the call ends with a result or an exception: its locals are dropped
Finish(r, res) ==
    /\ result' = [result EXCEPT ![r] = res]
    /\ pc' = [pc EXCEPT ![r] = "done"]
    /\ local' = [local EXCEPT ![r] = NoLocal]
    /\ UNCHANGED running

\* variant: run_submission goes on to answer_questions after a failed build
RaiseSwallowedInCreate(r, exc) ==
    IF req[r].entry = "run_submission" /\ pc[r] \in {"extract", "index"}
    THEN /\ pc' = [pc EXCEPT ![r] = "answer"]
         /\ UNCHANGED <<result, local, running>>
    ELSE Finish(r, Raises(req[r].entry, exc))

\* an exception propagates out of the call: nothing after it in the try block runs
Raise(r, exc) == Finish(r, Raises(req[r].entry, exc))

----------------------------------------------------------------------------
Init ==
    /\ req = [r \in Reqs |-> NoReq]
    /\ pc = [r \in Reqs |-> "idle"]
    /\ running = 0
    /\ vector_store = NoStore
    /\ lastBuild = "none"
    /\ local = [r \in Reqs |-> NoLocal]
    /\ result = [r \in Reqs |-> NoResult]
    /\ gen = [r \in Reqs |-> <<>>]
    /\ calls = [r \in Reqs |-> {}]
    /\ ext = [r \in Reqs |-> "none"]

\* calls are numbered in the order they are made
NextToArrive(r) == pc[r] = "idle" /\ \A s \in Reqs : s < r => pc[s] # "idle"

Start(r, request) ==
    /\ running' = r
    /\ req' = [req EXCEPT ![r] = request]
    /\ pc' = [pc EXCEPT ![r] =
                IF request.entry = "answer_questions" THEN "answer" ELSE "extract"]
    /\ UNCHANGED <<vector_store, lastBuild, local, result, gen, calls, ext>>

\* a client POSTs /api/v1/hackrx/run; the request waits for the event loop
Post(r) ==
    /\ NextToArrive(r)
    /\ pc' = [pc EXCEPT ![r] = "queued"]
    /\ UNCHANGED <<req, running, vector_store, lastBuild, local, result, gen, calls, ext>>

\* the event loop starts the handler on a waiting request; nothing reads the
\* request body before this point, so it is chosen here
Begin(r) ==
    /\ pc[r] = "queued"
    /\ LoopFree(r)
    /\ \E d \in Urls, qs \in QuestionLists : Start(r, QueryRequest(d, qs))

\* a caller holding the DocumentProcessor calls one of its methods
CallCreate(r) ==
    /\ NextToArrive(r)
    /\ running = 0
    /\ \E d \in Urls :
          Start(r, [entry |-> "create_vector_store", documents |-> d, questions |-> <<>>])

CallAnswer(r) ==
    /\ NextToArrive(r)
    /\ running = 0
    /\ \E qs \in QuestionLists :
          Start(r, [entry |-> "answer_questions", documents |-> "none", questions |-> qs])

\* create_vector_store, step 1: raw_text = self._load_and_extract_text(document_url)
LoadAndExtractText(r) ==
    /\ pc[r] = "extract"
    /\ \E fetch \in {"ok", "conn_error", "http_error"},
          pdf \in {"valid", "invalid"},
          len \in TextLens :
          LET cls == ExtractRaises(fetch, pdf)
          IN  \* pypdf is not reached when the download failed, nor is
              \* there text when the bytes are no PDF
              /\ (fetch # "ok") => (pdf = "valid" /\ len = 0)
              /\ (pdf = "invalid") => (len = 0)
              /\ ext' = [ext EXCEPT ![r] = ExtractCase(fetch, pdf, len)]
              /\ calls' = [calls EXCEPT ![r] = @ \cup {"fetch"}]
              /\ IF cls = "none"
                 THEN /\ local' = [local EXCEPT ![r].raw_text = len]
                      /\ pc' = [pc EXCEPT ![r] = "index"]
                      /\ UNCHANGED <<result, running, lastBuild>>
                 ELSE /\ Raise(r, ValueError(ExtractHandler(cls)))
                      /\ lastBuild' = "failed"
    /\ UNCHANGED <<req, vector_store, gen>>

\* create_vector_store, steps 2 and 3: split_text, then FAISS.from_texts
SplitAndIndex(r) ==
    /\ pc[r] = "index"
    /\ \E embed \in {"ok", "fail"} :
          LET chunks == NumChunks(local[r].raw_text)
              exc == FromTextsRaises(chunks, embed)
          IN  IF exc.cls = "none"
              THEN /\ vector_store' =
                         FromTexts(req[r].documents, chunks, r)
                   /\ lastBuild' = "ok"
                   /\ calls' = [calls EXCEPT ![r] = @ \cup {"embed", "build"}]
                   /\ IF req[r].entry = "run_submission"
                      THEN /\ pc' = [pc EXCEPT ![r] = "answer"]
                           /\ UNCHANGED <<result, local, running>>
                      ELSE Finish(r, [NoResult EXCEPT !.kind = "return"])
              ELSE /\ vector_store' = StoreAfterFailedBuild(vector_store)
                   /\ lastBuild' = "failed"
                   /\ calls' = [calls EXCEPT ![r] = @ \cup {"embed"}]
                   /\ Raise(r, exc)
    /\ UNCHANGED <<req, gen, ext>>

\* answer_questions up to the loop: the hasattr check, answers = [], the chain
AnswerEnter(r) ==
    /\ pc[r] = "answer"
    /\ IF MustRaiseNotCreated(vector_store, req[r].questions)
       THEN Raise(r, ValueError(MsgNotCreated))
       ELSE /\ local' = [local EXCEPT ![r].answers = <<>>,
                                      ![r].retriever = vector_store]
            /\ pc' = [pc EXCEPT ![r] = "loop"]
            /\ UNCHANGED <<result, running>>
    /\ UNCHANGED <<req, vector_store, lastBuild, gen, calls, ext>>

\* variant: a failed question is skipped and the loop goes on
AfterInvokeSkip(r, out) ==
    IF out = Raised
    THEN UNCHANGED <<local, pc, result, running>>
    ELSE /\ local' = [local EXCEPT ![r].answers = AppendAnswer(@, out)]
         /\ UNCHANGED <<pc, result, running>>

\* the loop body after retrieval_chain.invoke: append, or let the exception out
AfterInvoke(r, out) ==
    IF out = Raised
    THEN Raise(r, OtherError("RuntimeError", MsgLlm))
    ELSE /\ local' = [local EXCEPT ![r].answers = AppendAnswer(@, out)]
         /\ UNCHANGED <<pc, result, running>>

\* one iteration: the question at the loop's position goes through the chain
Invoke(r) ==
    /\ pc[r] = "loop"
    /\ Len(gen[r]) < Len(req[r].questions)
    /\ \E out \in LlmTexts \cup {Raised} :
          /\ gen' = [gen EXCEPT ![r] = Append(@,
                        [question |-> req[r].questions[Len(gen[r]) + 1],
                         store |-> local[r].retriever,
                         out |-> out])]
          /\ calls' = [calls EXCEPT ![r] = @ \cup {"retrieve", "llm"}]
          /\ AfterInvoke(r, out)
    /\ UNCHANGED <<req, vector_store, lastBuild, ext>>

\* return answers; run_submission wraps them in a QueryResponse
ReturnAnswers(r) ==
    /\ pc[r] = "loop"
    /\ Len(gen[r]) >= Len(req[r].questions)
    /\ Finish(r, IF req[r].entry = "run_submission"
                 THEN QueryResponse(local[r].answers)
                 ELSE [NoResult EXCEPT !.kind = "return",
                                       !.answers = local[r].answers])
    /\ UNCHANGED <<req, vector_store, lastBuild, gen, calls, ext>>

\* The result goes to the caller (the response is sent) and the caller / the
\* event loop is free for the next call.  The process keeps nothing of the
\* call but vector_store, and the histories of the call end here.
Respond(r) ==
    /\ pc[r] = "done"
    /\ pc' = [pc EXCEPT ![r] = "closed"]
    /\ running' = IF running = r THEN 0 ELSE running
    /\ req' = [req EXCEPT ![r] = NoReq]
    /\ result' = [result EXCEPT ![r] = NoResult]
    /\ gen' = [gen EXCEPT ![r] = <<>>]
    /\ calls' = [calls EXCEPT ![r] = {}]
    /\ ext' = [ext EXCEPT ![r] = "none"]
    /\ UNCHANGED <<vector_store, lastBuild, local>>

Step(r) ==
    \/ LoadAndExtractText(r)
    \/ SplitAndIndex(r)
    \/ AnswerEnter(r)
    \/ Invoke(r)
    \/ ReturnAnswers(r)
    \/ Respond(r)

\* the HTTP service
Next == \E r \in Reqs : Post(r) \/ Begin(r) \/ Step(r)

Spec == Init /\ [][Next]_vars

\* the DocumentProcessor driven directly, one call at a time
NextProc == \E r \in Reqs : CallCreate(r) \/ CallAnswer(r) \/ Step(r)

SpecProc == Init /\ [][NextProc]_vars

----------------------------------------------------------------------------
(* Properties *)

IsHttp(r) == req[r].entry = "run_submission"
Active(r) == pc[r] \in {"extract", "index", "answer", "loop"}
InFlight(r) == pc[r] = "queued" \/ Active(r)
Returned(r) == result[r].kind = "return"
RaisedOut(r) == result[r].kind = "raise"

\* C1: a request that succeeds returns exactly one answer per question, and
\* the i-th answer is the text the chain generated for the i-th question.
C1_AnswersAligned ==
    \A r \in Reqs :
        (IsHttp(r) /\ Returned(r)) =>
            /\ Len(result[r].answers) = Len(req[r].questions)
            /\ Len(gen[r]) = Len(req[r].questions)
            /\ \A i \in 1..Len(req[r].questions) :
                  /\ gen[r][i].question = req[r].questions[i]
                  /\ result[r].answers[i] = gen[r][i].out

\* C1 witness: a success with two different questions and two different answers.
C1_Witness ==
    \E r \in Reqs :
        /\ IsHttp(r) /\ Returned(r)
        /\ Len(req[r].questions) >= 2
        /\ req[r].questions[1] # req[r].questions[2]
        /\ result[r].answers[1] # result[r].answers[2]

\* C2 as stated: two requests in flight share no mutable state, so no step
\* taken while two requests are in flight changes the index the other one
\* will find in the processor.
C2_NoSharedMutableState ==
    [][(\E r1, r2 \in Reqs : r1 # r2 /\ InFlight(r1) /\ InFlight(r2))
          => vector_store' = vector_store]_vars

\* C2 amended: the requests share doc_processor.vector_store, but handlers
\* run one at a time: at most one request is being handled, and from its
\* build to its response the shared slot holds the index that request built
\* from its own document, which is the index its retriever reads.
C2_HandlersSerialized ==
    /\ \A r1, r2 \in Reqs : (Active(r1) /\ Active(r2)) => r1 = r2
    /\ \A r \in Reqs : Active(r) => running = r
    /\ \A r \in Reqs :
          (IsHttp(r) /\ pc[r] \in {"answer", "loop"}) =>
              /\ vector_store.builder = r
              /\ vector_store.doc = req[r].documents
              /\ (pc[r] = "loop" => local[r].retriever = vector_store)

\* C2 witness: one request is answering from its index while another waits,
\* and the index it replaced was another request's.
C2_Witness ==
    \E r1, r2 \in Reqs :
        /\ r1 # r2
        /\ pc[r1] = "loop" /\ Len(gen[r1]) >= 1
        /\ pc[r2] = "queued"
        /\ \E r0 \in Reqs : r0 # r1 /\ r0 # r2 /\ pc[r0] = "closed"

\* C3: when the chain raises for a question, no later question is processed
\* and the request ends with an error response that carries no answers, not
\* in its answers and not in its detail.
C3_FailFast ==
    \A r \in Reqs : \A i \in 1..Len(gen[r]) :
        (IsHttp(r) /\ gen[r][i].out = Raised) =>
            /\ i = Len(gen[r])
            /\ pc[r] = "done"
            /\ RaisedOut(r)
            /\ result[r].status = HTTP_500_INTERNAL_SERVER_ERROR
            /\ result[r].answers = <<>>
            /\ \A j \in 1..(i - 1), k \in 1..Len(result[r].detail) :
                  result[r].detail[k] # gen[r][j].out

\* C3 witness: the first of three questions was answered, the second raised,
\* the third was never asked.
C3_Witness ==
    \E r \in Reqs :
        /\ IsHttp(r) /\ pc[r] = "done"
        /\ Len(req[r].questions) = 3
        /\ Len(gen[r]) = 2
        /\ gen[r][1].out = "grounded answer"
        /\ gen[r][2].out = Raised

\* C4 as stated: a request with no questions calls no backend and answers
\* with an empty answers list.
C4_EmptyQuestionsNoBackend ==
    \A r \in Reqs :
        (IsHttp(r) /\ req[r].questions = <<>>) =>
            /\ calls[r] = {}
            /\ (pc[r] = "done" => result[r] = QueryResponse(<<>>))

\* C5 as stated: an empty output of the language model is recorded as the
\* sentinel, so a success holds no empty answer.
C5_EmptyOutputBecomesSentinel ==
    \A r \in Reqs :
        (IsHttp(r) /\ Returned(r)) =>
            \A i \in 1..Len(result[r].answers) :
                /\ result[r].answers[i] # ""
                /\ (gen[r][i].out = "" => result[r].answers[i] = Sentinel)

\* C6 as stated: a document with no extractable text ends the request with
\* the empty-index or the parse error (a ValueError of the processor, which
\* the handler reports as 400), never with a success.
C6_EmptyTextTypedError ==
    \A r \in Reqs :
        (IsHttp(r) /\ ext[r] = "empty_text" /\ pc[r] = "done") =>
            /\ RaisedOut(r)
            /\ result[r].status = HTTP_400_BAD_REQUEST
            /\ result[r].detail \in {<<MsgParse>>, <<MsgNotCreated>>}

\* C7: every retrieval made for a request reads the index that this request
\* built from its own document; a request whose build failed retrieves
\* nothing, whatever index an earlier request left behind.
C7_AnswersFromOwnIndex ==
    \A r \in Reqs :
        IsHttp(r) =>
            /\ \A i \in 1..Len(gen[r]) :
                  /\ gen[r][i].store.builder = r
                  /\ gen[r][i].store.doc = req[r].documents
            /\ ("build" \notin calls[r]) => (gen[r] = <<>> /\ ~Returned(r))

\* C7 witness: a later request's build has failed while the processor still
\* holds the index of an earlier request.
C7_Witness ==
    \E r \in Reqs :
        /\ IsHttp(r) /\ pc[r] = "done" /\ RaisedOut(r)
        /\ "fetch" \in calls[r] /\ "build" \notin calls[r]
        /\ vector_store # NoStore /\ vector_store.builder # r

\* C8: answer_questions on a processor that has never built an index raises
\* the not-created error, for any questions list, and calls no backend.
C8_QueryBeforeBuildRaises ==
    \A r \in Reqs :
        (req[r].entry = "answer_questions" /\ vector_store = NoStore
            /\ pc[r] \in {"loop", "done"}) =>
            /\ pc[r] = "done"
            /\ result[r] = Raises("answer_questions", ValueError(MsgNotCreated))
            /\ gen[r] = <<>>
            /\ calls[r] = {}

\* C8 witness: the call with an empty questions list on a fresh processor.
C8_Witness ==
    \E r \in Reqs :
        /\ req[r].entry = "answer_questions" /\ req[r].questions = <<>>
        /\ pc[r] = "done" /\ RaisedOut(r)
        /\ lastBuild = "none" /\ vector_store = NoStore

\* C9: a failed download or a non-success status surfaces as the download
\* error, bytes that are no PDF as the parse error; in both cases the call
\* raises, so no text reaches the caller and nothing is embedded.
C9_ExtractorErrorKinds ==
    \A r \in Reqs :
        /\ (ext[r] \in {"conn_error", "http_error"}) =>
              /\ pc[r] = "done"
              /\ result[r] = Raises(req[r].entry, ValueError(MsgDownload))
              /\ calls[r] = {"fetch"}
        /\ (ext[r] = "invalid_pdf") =>
              /\ pc[r] = "done"
              /\ result[r] = Raises(req[r].entry, ValueError(MsgParse))
              /\ calls[r] = {"fetch"}

\* C9 witness: a download that ended with a non-success HTTP status.
C9_Witness ==
    \E r \in Reqs :
        /\ ext[r] = "http_error"
        /\ RaisedOut(r) /\ result[r].cls = "ValueError"

\* C10: a create_vector_store that raises leaves vector_store as it was, and
\* an answer_questions that follows a failed build on a processor holding an
\* index does not raise the not-created error and retrieves from that index.
C10_FailedBuildKeepsIndex ==
    /\ [][\A r \in Reqs :
            (pc[r] \in {"extract", "index"} /\ pc'[r] = "done"
                /\ result'[r].kind = "raise") => vector_store' = vector_store]_vars
    /\ [](\A r \in Reqs :
            (req[r].entry = "answer_questions" /\ lastBuild = "failed"
                /\ vector_store # NoStore /\ pc[r] \in {"loop", "done"}) =>
                /\ result[r].detail # <<MsgNotCreated>>
                /\ \A i \in 1..Len(gen[r]) : gen[r][i].store = vector_store)

\* C10 witness: after a failed build, a call has been answered from the
\* index an earlier build left in the processor.
C10_Witness ==
    \E r \in Reqs :
        /\ req[r].entry = "answer_questions" /\ Returned(r)
        /\ Len(gen[r]) >= 1
        /\ lastBuild = "failed"
        /\ vector_store # NoStore /\ gen[r][1].store = vector_store

====
